---- MODULE Spec2Model ----
(***************************************************************************)
(* rangler: a streaming line transformer.  src/src/pipeline.rs builds a   *)
(* Pipeline from command-line tokens and threads each line through its    *)
(* steps; src/src/main.rs reads stdin record by record and writes the     *)
(* surviving lines.                                                        *)
(*                                                                         *)
(* A Rust String / &str is a sequence of Unicode scalar values (numbers); *)
(* a byte buffer is a sequence of numbers 0..255.  String::len is the     *)
(* UTF-8 byte length (Utf8Len).                                            *)
(***************************************************************************)
EXTENDS Integers, Sequences, FiniteSets, TLC

VARIABLES
    args,           \* the tokens handed to build_pipeline (std::env::args()[1..])
    tokens,         \* build_pipeline: the slice `tokens`, not yet consumed
    steps,          \* build_pipeline: `steps`; afterwards Pipeline.steps
    err,            \* the Err(&'static str) of build_pipeline / inner_main, or NoErr
    pc,             \* where the program is
    line,           \* argument of the last Pipeline::apply call
    ret,            \* result of the last Pipeline::apply call
    trace,          \* history: value of `output` at the top of each loop
                    \* iteration of the last apply call
    hist,           \* history: per step, the values of `output` that reached
                    \* it in the apply calls before the last one
    op,             \* history: the last call made on the pipeline
    memory,         \* result of the last Pipeline::get_memory call
    input,          \* history: the whole byte stream on stdin
    stdin,          \* bytes of stdin no read() has delivered yet
    buf,            \* BufReader std_in: bytes buffered and not yet consumed
    buffer,         \* inner_main: the slice `buffer`, as read_until leaves it
    line_of_bytes,  \* inner_main: line_of_bytes
    out,            \* bytes written to std_out (BufWriter), in order
    flushed,        \* how many bytes of out have been flushed to stdout
    total_bytes_read,
    bytes_at_last_message,
    records,        \* history: line_of_bytes of every finished outer iteration
    applied         \* history: the line_of_text of every apply call of the loop

vars == <<args, tokens, steps, err, pc, line, ret, trace, hist, op,
          memory, input, stdin, buf, buffer, line_of_bytes, out, flushed,
          total_bytes_read, bytes_at_last_message, records, applied>>

buildVars == <<args, tokens, steps, err>>
applyVars == <<line, ret, trace, hist, op, memory>>
runVars   == <<input, stdin, buf, buffer, line_of_bytes, out, flushed,
               total_bytes_read, bytes_at_last_message, records, applied>>

-----------------------------------------------------------------------------
(* Bounds of the model *)

MaxTokens == 3      \* longest token list
MaxInput  == 4      \* longest input stream (besides the named examples)
MaxCalls  == 3      \* most apply calls in a logged sequence of calls

-----------------------------------------------------------------------------
(* Sequences *)

SeqsUpTo(S, n) == UNION {[1..k -> S] : k \in 0..n}

RECURSIVE Concat(_)
Concat(ss) == IF ss = <<>> THEN <<>> ELSE Head(ss) \o Concat(Tail(ss))

RECURSIVE SumSeq(_)
SumSeq(ns) == IF ns = <<>> THEN 0 ELSE Head(ns) + SumSeq(Tail(ns))

Last(s) == s[Len(s)]

-----------------------------------------------------------------------------
(* Strings: char, str::len, to_lowercase, to_uppercase, trim *)

\* char::len_utf8
Utf8Len1(c) == IF c < 128 THEN 1 ELSE IF c < 2048 THEN 2 ELSE IF c < 65536 THEN 3 ELSE 4

\* str::len: the length in bytes
StrLen(s) == SumSeq([i \in 1..Len(s) |-> Utf8Len1(s[i])])

\* char::to_lowercase on Basic Latin and Latin-1 (the characters the model uses)
\* (faulty variant: a Latin-1 capital is folded by the wrong offset and lands
\* on a Basic Latin capital)
LowerChar_WrongOffset(c) ==
    IF c \in 65..90 THEN c + 32
    ELSE IF c \in 192..222 /\ c # 215 THEN c - 128
    ELSE c
LowerChar(c) ==
    IF c \in 65..90 THEN c + 32
    ELSE IF c \in 192..222 /\ c # 215 THEN c + 32
    ELSE c

\* char::to_uppercase on Basic Latin and Latin-1; one char may become several
UpperChar(c) ==
    IF c \in 97..122 THEN <<c - 32>>
    ELSE IF c \in 224..254 /\ c # 247 THEN <<c - 32>>
    ELSE IF c = 223 THEN <<83, 83>>
    ELSE IF c = 255 THEN <<376>>
    ELSE IF c = 181 THEN <<924>>
    ELSE <<c>>

to_lowercase(s) == [i \in 1..Len(s) |-> LowerChar(s[i])]

to_uppercase(s) == Concat([i \in 1..Len(s) |-> UpperChar(s[i])])

\* char::is_whitespace: the Unicode White_Space property
IsWhitespace(c) ==
    c \in (9..13) \cup {32, 133, 160, 5760, 8232, 8233, 8239, 8287, 12288}
          \cup (8192..8202)

RECURSIVE TrimStart(_)
TrimStart(s) ==
    IF s # <<>> /\ IsWhitespace(Head(s)) THEN TrimStart(Tail(s)) ELSE s

RECURSIVE TrimEnd(_)
TrimEnd(s) ==
    IF s # <<>> /\ IsWhitespace(Last(s)) THEN TrimEnd(SubSeq(s, 1, Len(s) - 1)) ELSE s

\* str::trim
trim(s) == TrimEnd(TrimStart(s))

-----------------------------------------------------------------------------
(* regex::Regex, for the patterns the model uses: literal characters, `.`  *)
(* (any character but \n) and a postfix `+`; a pattern is searched for     *)
(* anywhere in the text (is_match is unanchored).                          *)

Backslash == <<92>>     \* the pattern `\`: a trailing backslash does not compile
Dot  == 46
Plus == 43

\* Regex::new(p).is_ok()
RegexValid(p) ==
    /\ p = <<>> \/ Last(p) # 92
    /\ p = <<>> \/ Head(p) # Plus
    /\ \A i \in 1..Len(p) : p[i] \notin {40, 41, 42, 63, 91, 93, 123, 125, 124, 94, 36}

\* whether one pattern character matches one character of the text
CharMatches(pc1, c) == IF pc1 = Dot THEN c # 10 ELSE pc1 = c

\* whether pattern p from index i matches text s starting at index j
RECURSIVE MatchHere(_, _, _, _)
MatchHere(p, i, s, j) ==
    IF i > Len(p) THEN TRUE
    ELSE IF i < Len(p) /\ p[i + 1] = Plus
    THEN /\ j <= Len(s)
         /\ CharMatches(p[i], s[j])
         /\ \/ MatchHere(p, i + 2, s, j + 1)
            \/ MatchHere(p, i, s, j + 1)
    ELSE /\ j <= Len(s)
         /\ CharMatches(p[i], s[j])
         /\ MatchHere(p, i + 1, s, j + 1)

\* Regex::is_match
is_match(p, s) == \E j \in 1..(Len(s) + 1) : MatchHere(p, 1, s, j)

-----------------------------------------------------------------------------
(* PipelineStep and Pipeline::build_pipeline (pipeline.rs) *)

KwFilter  == <<102, 105, 108, 116, 101, 114>>         \* "filter"
KwLower   == <<108, 111, 119, 101, 114>>              \* "lower"
KwUpper   == <<117, 112, 112, 101, 114>>              \* "upper"
KwTrim    == <<116, 114, 105, 109>>                   \* "trim"
KwDedupe  == <<100, 101, 100, 117, 112, 101>>         \* "dedupe"
KwAppend  == <<97, 112, 112, 101, 110, 100>>          \* "append"
KwPrepend == <<112, 114, 101, 112, 101, 110, 100>>    \* "prepend"

NoErr == ""
ErrMissingRegex == "Missing regular expression"
ErrInvalidRegex == "Invalid regular expression"
ErrMissingSuffix == "Missing suffix"
ErrMissingPrefix == "Missing prefix"
ErrInvalidCommand == "Invalid command specified"
ErrNoCommands == "No commands specified"

\* enum PipelineStep: arg is the Regex's pattern, the suffix or the prefix;
\* dupes and stored are the HashSet<String> and the usize of Dedupe
Step(kind, arg) == [kind |-> kind, arg |-> arg, dupes |-> {}, stored |-> 0]

FilterStep(regex) == Step("Filter", regex)
LowerStep == Step("Lower", <<>>)
UpperStep == Step("Upper", <<>>)
TrimStep == Step("Trim", <<>>)
DedupeStep == Step("Dedupe", <<>>)
AppendStep(suffix) == Step("Append", suffix)
PrependStep(prefix) == Step("Prepend", prefix)

\* what an iteration of the loop of build_pipeline leaves: the slice and the
\* steps to go on with, or the error the function returns with
Fail(tok, st, m) == [tokens |-> tok, steps |-> st, err |-> m]
Push(tok, st, step) ==
    [tokens |-> Tail(tok), steps |-> Append(st, step), err |-> NoErr]

\* `tokens = &tokens[1..]` in the arms of filter, append and prepend
\* (faulty variant: the argument stays in the slice)
ConsumeArgument_Keep(tok) == tok
ConsumeArgument(tok) == Tail(tok)

\* the messages of `argument.ok_or(..)?`
\* (faulty variant: the messages of append and prepend exchanged)
MissingArgument_Swapped(kw) ==
    CASE kw = KwFilter  -> ErrMissingRegex
      [] kw = KwAppend  -> ErrMissingPrefix
      [] kw = KwPrepend -> ErrMissingSuffix
MissingArgument(kw) ==
    CASE kw = KwFilter  -> ErrMissingRegex
      [] kw = KwAppend  -> ErrMissingSuffix
      [] kw = KwPrepend -> ErrMissingPrefix

\* the arm `_ => Err("Invalid command specified")?`
\* (faulty variant: the token is passed over)
UnknownCommand_Skipped(tok, st) == [tokens |-> Tail(tok), steps |-> st, err |-> NoErr]
UnknownCommand(tok, st) == Fail(tok, st, ErrInvalidCommand)

\* `command.to_lowercase()`, the word the match is on
\* (faulty variant: the token as it is spelt)
CommandWord_Verbatim(command) == command
CommandWord(command) == to_lowercase(command)

\* `.map_err(|_| "Invalid regular expression")?`
\* (faulty variant: the message of an unknown command)
InvalidPattern_AsCommand(tok, st) == Fail(tok, st, ErrInvalidCommand)
InvalidPattern(tok, st) == Fail(tok, st, ErrInvalidRegex)

\* One iteration of the loop of build_pipeline on a non-empty slice tok
BuildIteration(tok, st) ==
    LET command  == tok[1]
        hasArg   == Len(tok) >= 2
        argument == IF hasArg THEN tok[2] ELSE <<>>
        kw       == CommandWord(command)
    IN  CASE kw = KwFilter ->
                IF ~hasArg THEN Fail(tok, st, MissingArgument(kw))
                ELSE IF ~RegexValid(argument) THEN InvalidPattern(tok, st)
                ELSE Push(ConsumeArgument(tok), st, FilterStep(argument))
          [] kw = KwLower  -> Push(tok, st, LowerStep)
          [] kw = KwUpper  -> Push(tok, st, UpperStep)
          [] kw = KwTrim   -> Push(tok, st, TrimStep)
          [] kw = KwDedupe -> Push(tok, st, DedupeStep)
          [] kw = KwAppend ->
                IF ~hasArg THEN Fail(tok, st, MissingArgument(kw))
                ELSE Push(ConsumeArgument(tok), st, AppendStep(argument))
          [] kw = KwPrepend ->
                IF ~hasArg THEN Fail(tok, st, MissingArgument(kw))
                ELSE Push(ConsumeArgument(tok), st, PrependStep(argument))
          [] OTHER -> UnknownCommand(tok, st)

\* The end of build_pipeline, after the loop: `if steps.len() < 0`
BuildResult(st) ==
    IF Len(st) < 0
    THEN [ok |-> FALSE, steps |-> <<>>, err |-> ErrNoCommands]
    ELSE [ok |-> TRUE, steps |-> st, err |-> NoErr]

\* build_pipeline as a whole: Ok(Pipeline { steps }) or Err(err)
RECURSIVE BuildLoop(_, _)
BuildLoop(tok, st) ==
    IF Len(tok) = 0 THEN BuildResult(st)
    ELSE LET r == BuildIteration(tok, st)
         IN  IF r.err # NoErr
             THEN [ok |-> FALSE, steps |-> <<>>, err |-> r.err]
             ELSE BuildLoop(r.tokens, r.steps)

build_pipeline(tok) == BuildLoop(tok, <<>>)

-----------------------------------------------------------------------------
(* Pipeline::apply and Pipeline::get_memory (pipeline.rs) *)

None    == [some |-> FALSE, value |-> <<>>]
Some(v) == [some |-> TRUE, value |-> v]

\* PipelineStep::Dedupe arm, the value not seen before: insert and count
\* (faulty variants: nothing recorded; chars counted instead of bytes; the
\* set keeps the newest value only; only the first value is ever recorded)
DedupeInsert_FirstOnly(step, output) ==
    IF step.dupes = {} THEN
        [step EXCEPT !.dupes = {output}, !.stored = StrLen(output)]
    ELSE step
DedupeInsert_Forget(step, output) == step
DedupeInsert_Replace(step, output) ==
    [step EXCEPT !.dupes = {output}, !.stored = @ + StrLen(output)]
DedupeInsert_CountChars(step, output) ==
    [step EXCEPT !.dupes = @ \cup {output}, !.stored = @ + Len(output)]
DedupeInsert(step, output) ==
    [step EXCEPT !.dupes = @ \cup {output}, !.stored = @ + StrLen(output)]

\* PipelineStep::Prepend arm: `prefix.to_owned() + &output`
\* (faulty variant: the prefix put after the value)
PrependTo_After(prefix, output) == output \o prefix
PrependTo(prefix, output) == prefix \o output

\* One arm of the match in apply: the step as it is left, the new value of
\* `output`, and whether the arm returned None
StepApply(step, output) ==
    LET Keep(v) == [drop |-> FALSE, step |-> step, output |-> v]
        Drop    == [drop |-> TRUE, step |-> step, output |-> output]
    IN  CASE step.kind = "Filter" ->
                IF ~is_match(step.arg, output) THEN Drop ELSE Keep(output)
          [] step.kind = "Append"  -> Keep(output \o step.arg)
          [] step.kind = "Prepend" -> Keep(PrependTo(step.arg, output))
          [] step.kind = "Dedupe" ->
                IF output \in step.dupes THEN Drop
                ELSE [drop |-> FALSE, step |-> DedupeInsert(step, output),
                      output |-> output]
          [] step.kind = "Lower" -> Keep(to_lowercase(output))
          [] step.kind = "Upper" -> Keep(to_uppercase(output))
          [] step.kind = "Trim"  -> Keep(trim(output))

\* The for loop of apply from step i on: the steps as left, the value
\* returned, and tr, `output` as it was at the top of each iteration run
RECURSIVE ApplyLoop(_, _, _, _)
ApplyLoop(st, i, output, tr) ==
    IF i > Len(st) THEN [steps |-> st, ret |-> Some(output), trace |-> tr]
    ELSE LET r == StepApply(st[i], output)
         IN  IF r.drop
             THEN [steps |-> st, ret |-> None, trace |-> Append(tr, output)]
             ELSE ApplyLoop([st EXCEPT ![i] = r.step], i + 1, r.output,
                            Append(tr, output))

\* (faulty variant: a dropped line leaves the steps as they were)
apply_RollBack(st, ln) ==
    LET r == ApplyLoop(st, 1, ln, <<>>)
    IN  IF r.ret.some THEN r ELSE [r EXCEPT !.steps = st]
apply(st, ln) == ApplyLoop(st, 1, ln, <<>>)

\* Pipeline::get_memory: the loop over the steps from step i on
RECURSIVE MemoryLoop(_, _, _)
MemoryLoop(st, i, mem) ==
    IF i > Len(st) THEN mem
    ELSE MemoryLoop(st, i + 1,
                    mem + (IF st[i].kind = "Dedupe" THEN st[i].stored ELSE 0))

get_memory(st) == MemoryLoop(st, 1, 0)

-----------------------------------------------------------------------------
(* Bytes and text: std::str::from_utf8 and String::as_bytes (main.rs) *)

Newline == <<10>>       \* b'\n', "\n"

IsContinuation(b) == b \in 128..191

\* from_utf8 from byte i of bs on, text being what is decoded so far:
\* whether the bytes are well-formed UTF-8, and the text they encode
RECURSIVE DecodeFrom(_, _, _)
DecodeFrom(bs, i, text) ==
    LET n  == Len(bs)
        b0 == bs[i]
        Bad == [ok |-> FALSE, text |-> <<>>]
    IN  IF i > n THEN [ok |-> TRUE, text |-> text]
        ELSE IF b0 < 128 THEN DecodeFrom(bs, i + 1, Append(text, b0))
        ELSE IF b0 \in 194..223 THEN
            IF i + 1 <= n /\ IsContinuation(bs[i + 1])
            THEN DecodeFrom(bs, i + 2,
                            Append(text, (b0 - 192) * 64 + (bs[i + 1] - 128)))
            ELSE Bad
        ELSE IF b0 \in 224..239 THEN
            IF /\ i + 2 <= n
               /\ bs[i + 1] \in (IF b0 = 224 THEN 160..191
                                 ELSE IF b0 = 237 THEN 128..159 ELSE 128..191)
               /\ IsContinuation(bs[i + 2])
            THEN DecodeFrom(bs, i + 3,
                            Append(text, (b0 - 224) * 4096 + (bs[i + 1] - 128) * 64
                                         + (bs[i + 2] - 128)))
            ELSE Bad
        ELSE IF b0 \in 240..244 THEN
            IF /\ i + 3 <= n
               /\ bs[i + 1] \in (IF b0 = 240 THEN 144..191
                                 ELSE IF b0 = 244 THEN 128..143 ELSE 128..191)
               /\ IsContinuation(bs[i + 2])
               /\ IsContinuation(bs[i + 3])
            THEN DecodeFrom(bs, i + 4,
                            Append(text, (b0 - 240) * 262144 + (bs[i + 1] - 128) * 4096
                                         + (bs[i + 2] - 128) * 64 + (bs[i + 3] - 128)))
            ELSE Bad
        ELSE Bad

\* std::str::from_utf8
from_utf8(bs) == DecodeFrom(bs, 1, <<>>)

\* the UTF-8 bytes of one char
EncodeChar(c) ==
    IF c < 128 THEN <<c>>
    ELSE IF c < 2048 THEN <<192 + (c \div 64), 128 + (c % 64)>>
    ELSE IF c < 65536
    THEN <<224 + (c \div 4096), 128 + ((c \div 64) % 64), 128 + (c % 64)>>
    ELSE <<240 + (c \div 262144), 128 + ((c \div 4096) % 64),
           128 + ((c \div 64) % 64), 128 + (c % 64)>>

\* String::as_bytes
as_bytes(text) == Concat([i \in 1..Len(text) |-> EncodeChar(text[i])])

-----------------------------------------------------------------------------
(* The run loop of inner_main (main.rs) *)

Capacity == 1000000         \* BufReader::with_capacity(1_000_000, stdin())
ProgressEvery == 256000     \* total_bytes_read > bytes_at_last_message + 256_000

Min(a, b) == IF a < b THEN a ELSE b

\* <&[u8] as BufRead>::read_until(b'\n', ..) on the slice b: the bytes it
\* appends (up to and with the first newline, or all of b), how many they
\* are, and the slice as it is left
read_until(b) ==
    LET idx  == IF \E i \in 1..Len(b) : b[i] = 10
                THEN CHOOSE i \in 1..Len(b) :
                        b[i] = 10 /\ \A j \in 1..(i - 1) : b[j] # 10
                ELSE Len(b)
    IN  [consumed |-> idx, taken |-> SubSeq(b, 1, idx),
         rest |-> SubSeq(b, idx + 1, Len(b))]

\* `(line + "\n").as_bytes()`: what write_all is given for a surviving line
WrittenFor(text) == as_bytes(text \o Newline)

-----------------------------------------------------------------------------
(* The inputs the model draws from *)

\* tokens for the specification of the pipeline in use
ApplyTokens ==
    {KwFilter, KwLower, KwUpper, KwTrim, KwDedupe, KwAppend, KwPrepend,
     <<46, 43>>,        \* ".+"
     <<111>>}           \* "o"

\* token lists longer than MaxTokens that the pipeline in use also starts from
ExampleArgs ==
    {<<KwDedupe, KwFilter, <<111>>, KwDedupe>>}   \* dedupe filter o dedupe

\* tokens for the specification of build_pipeline alone: spellings of
\* keywords in other cases, a pattern that does not compile, an unknown word
BuildTokens ==
    ApplyTokens \cup
    {<<70, 73, 76, 84, 69, 82>>,        \* "FILTER"
     <<65, 112, 112, 101, 110, 100>>,   \* "Append"
     <<108, 79, 119, 69, 114>>,         \* "lOwEr"
     <<85, 80, 80, 69, 82>>,            \* "UPPER"
     <<84, 114, 105, 109>>,             \* "Trim"
     <<68, 69, 68, 85, 80, 69>>,        \* "DEDUPE"
     <<80, 114, 101, 80, 101, 110, 100>>, \* "PrePend"
     Backslash,                         \* "\"
     <<122, 122>>}                      \* "zz"

\* token lists the program is run with
RunArgs ==
    {<<>>,
     <<KwLower, KwDedupe>>,
     <<KwTrim>>,
     <<KwDedupe>>,
     <<<<122, 122>>>>,                  \* zz: build_pipeline fails
     <<KwLower, KwFilter>>}             \* fails after a step was built

\* bytes of the input stream: \n, "O", and the two bytes of an accented "e"
\* (each alone is not UTF-8)
InputBytes == {10, 79, 195, 169}

ExampleInput ==                          \* "Foo\nfoo\nbar\n"
    <<70, 111, 111, 10, 102, 111, 111, 10, 98, 97, 114, 10>>

Inputs == SeqsUpTo(InputBytes, MaxInput) \cup {ExampleInput}

\* tokens of the pipelines without Dedupe steps, and their lines: apply is
\* a function of the line alone there
FoldTokens ==
    (ApplyTokens \ {KwDedupe}) \cup {<<65>>}     \* "A"

FoldExampleArgs ==
    {<<KwPrepend, <<65>>, KwAppend, <<66>>>>}    \* prepend A append B

FoldLines ==
    {<<>>,
     <<79>>,                            \* "O"
     <<111>>,                           \* "o"
     <<32, 79>>,                        \* " O"
     <<201, 32>>,                       \* "E" with an acute accent, and a space
     <<223>>,                           \* sharp s: two chars in upper case
     <<102, 79, 111>>,                  \* "fOo"
     <<120>>,                           \* "x"
     <<32, 32, 104, 105, 32, 32>>}      \* "  hi  "

\* lines handed to apply
Lines ==
    {<<>>,
     <<102, 79, 111>>,  \* "fOo"
     <<233>>,           \* "e" with an acute accent: one char, two bytes
     <<32, 233>>}       \* the same after a space

-----------------------------------------------------------------------------
(* State machine *)

NoHist == <<>>

InitBuildVars(a) ==
    /\ args = a
    /\ tokens = a
    /\ steps = <<>>
    /\ err = NoErr

InitApplyVars ==
    /\ line = <<>>
    /\ ret = None
    /\ trace = <<>>
    /\ hist = NoHist
    /\ op = "none"
    /\ memory = 0

InitRunVars(inp) ==
    /\ input = inp
    /\ stdin = inp
    /\ buf = <<>>
    /\ buffer = <<>>
    /\ line_of_bytes = <<>>
    /\ out = <<>>
    /\ flushed = 0
    /\ total_bytes_read = 0
    /\ bytes_at_last_message = 0
    /\ records = <<>>
    /\ applied = <<>>

\* build_pipeline, one iteration of its loop (pipeline.rs 23-56)
BuildIter ==
    /\ pc = "build"
    /\ Len(tokens) # 0
    /\ LET r == BuildIteration(tokens, steps)
       IN  \/ /\ r.err = NoErr
              /\ tokens' = r.tokens
              /\ steps' = r.steps
              /\ UNCHANGED <<err, pc>>
           \/ /\ r.err # NoErr
              /\ err' = r.err
              /\ steps' = <<>>
              /\ pc' = "failed"
              /\ UNCHANGED tokens
    /\ UNCHANGED <<args, applyVars, runVars>>

\* build_pipeline, the loop left (pipeline.rs 24-26, 58-62)
BuildFinish ==
    /\ pc = "build"
    /\ Len(tokens) = 0
    /\ LET r == BuildResult(steps)
       IN  /\ steps' = r.steps
           /\ err' = r.err
           /\ pc' = IF r.ok THEN "built" ELSE "failed"
    /\ UNCHANGED <<args, tokens, applyVars, runVars>>

\* the values that reached each step in all calls so far
MergeHist(h, tr) ==
    [i \in 1..Len(steps) |->
        (IF i <= Len(h) THEN h[i] ELSE {}) \cup (IF i <= Len(tr) THEN {tr[i]} ELSE {})]

\* a call pipeline.apply(ln), ln one of the lines L; the history hist is
\* kept when recorded is true
ApplyWith(L, recorded) ==
    /\ pc = "built"
    /\ \E ln \in L :
          LET r == apply(steps, ln)
          IN  /\ line' = ln
              /\ steps' = r.steps
              /\ ret' = r.ret
              /\ trace' = r.trace
              /\ hist' = IF recorded THEN MergeHist(hist, trace) ELSE hist
    /\ op' = "apply"
    /\ UNCHANGED <<args, tokens, err, pc, memory, runVars>>

ApplyCall == ApplyWith(Lines, TRUE)

\* a call pipeline.apply(ln) on a pipeline without Dedupe steps
ApplyAnyLine == ApplyWith(FoldLines, FALSE)

\* a call pipeline.get_memory()
\* (faulty variant: the call takes the seen-sets out of the Dedupe steps)
GetMemoryCall_Drain ==
    /\ pc = "built"
    /\ memory' = get_memory(steps)
    /\ steps' = [i \in 1..Len(steps) |-> [steps[i] EXCEPT !.dupes = {}]]
    /\ op' = "get_memory"
    /\ UNCHANGED <<args, tokens, err, pc, line, ret, trace, hist, runVars>>
GetMemoryCall ==
    /\ pc = "built"
    /\ memory' = get_memory(steps)
    /\ op' = "get_memory"
    /\ UNCHANGED <<args, tokens, steps, err, pc, line, ret, trace, hist, runVars>>

Init ==
    /\ \E a \in SeqsUpTo(ApplyTokens, MaxTokens) \cup ExampleArgs : InitBuildVars(a)
    /\ pc = "build"
    /\ InitApplyVars
    /\ InitRunVars(<<>>)

InitBuild ==
    /\ \E a \in SeqsUpTo(BuildTokens, MaxTokens) : InitBuildVars(a)
    /\ pc = "build"
    /\ InitApplyVars
    /\ InitRunVars(<<>>)

NextBuild == BuildIter \/ BuildFinish

BuildSpec == InitBuild /\ [][NextBuild]_vars

\* inner_main: build_pipeline(&args[1..])? (main.rs 33-34); on Err main
\* prints the message and the usage and exits
\* (faulty variant: the error of build_pipeline is not propagated)
MainBuild_Proceed ==
    /\ pc = "main"
    /\ LET r == build_pipeline(args)
       IN  /\ steps' = r.steps
           /\ err' = r.err
           /\ pc' = "fill"
    /\ UNCHANGED <<args, tokens, applyVars, runVars>>
MainBuild ==
    /\ pc = "main"
    /\ LET r == build_pipeline(args)
       IN  /\ steps' = r.steps
           /\ err' = r.err
           /\ pc' = IF r.ok THEN "fill" ELSE "exit"
    /\ UNCHANGED <<args, tokens, applyVars, runVars>>

\* the top of the outer loop: std_in.fill_buf() reads from stdin only when
\* nothing is buffered; a read delivers any non-zero number of the bytes to
\* come (at most Capacity), and none only at the end of the stream (main.rs
\* 47-51)
\* (faulty variant: a read loses the byte that follows the ones it delivers)
FillBuf_DropByte ==
    /\ pc = "fill"
    /\ IF buf # <<>>
       THEN UNCHANGED <<buf, stdin>>
       ELSE \E k \in (IF stdin = <<>> THEN {0} ELSE 1..Min(Len(stdin), Capacity)) :
               /\ buf' = SubSeq(stdin, 1, k)
               /\ stdin' = SubSeq(stdin, k + 2, Len(stdin))
    /\ buffer' = buf'
    /\ pc' = IF Len(buf') = 0 THEN "finish" ELSE "inner"
    /\ UNCHANGED <<buildVars, applyVars, input, line_of_bytes, out, flushed,
                   total_bytes_read, bytes_at_last_message, records, applied>>
FillBuf ==
    /\ pc = "fill"
    /\ IF buf # <<>>
       THEN UNCHANGED <<buf, stdin>>
       ELSE \E k \in (IF stdin = <<>> THEN {0} ELSE 1..Min(Len(stdin), Capacity)) :
               /\ buf' = SubSeq(stdin, 1, k)
               /\ stdin' = SubSeq(stdin, k + 1, Len(stdin))
    /\ buffer' = buf'
    /\ pc' = IF Len(buf') = 0 THEN "finish" ELSE "inner"
    /\ UNCHANGED <<buildVars, applyVars, input, line_of_bytes, out, flushed,
                   total_bytes_read, bytes_at_last_message, records, applied>>

\* one iteration of the inner loop (main.rs 53-61)
InnerRead ==
    /\ pc = "inner"
    /\ LET r == read_until(buffer)
       IN  /\ line_of_bytes' = line_of_bytes \o r.taken
           /\ buffer' = r.rest
           /\ pc' = IF r.consumed = 0 \/ Last(line_of_bytes') = 10
                    THEN "decode" ELSE "inner"
    /\ UNCHANGED <<buildVars, applyVars, input, stdin, buf, out, flushed,
                   total_bytes_read, bytes_at_last_message, records, applied>>

\* the arm Ok(line_of_text) of the match on from_utf8 (main.rs 64-72)
ProcessLine(line_of_text) ==
    \E r \in {apply(steps, line_of_text)} :
        /\ line' = line_of_text
        /\ steps' = r.steps
        /\ ret' = r.ret
        /\ trace' = r.trace
        /\ hist' = MergeHist(hist, trace)
        /\ op' = "apply"
        /\ applied' = Append(applied, line_of_text)
        /\ out' = IF r.ret.some THEN out \o WrittenFor(r.ret.value) ELSE out

\* the arm Err(_) of the match on from_utf8 (main.rs 73)
\* (faulty variant: the ASCII bytes of the record are processed as a line)
SkipRecord_Lossy ==
    ProcessLine(SelectSeq(line_of_bytes, LAMBDA b : b < 128))
SkipRecord ==
    UNCHANGED <<line, steps, ret, trace, hist, op, out, applied>>

\* the rest of the outer loop's body, from the match on from_utf8 to
\* line_of_bytes.clear() (main.rs 63-93)
ProcessRecord ==
    /\ pc = "decode"
    /\ \E d \in {from_utf8(line_of_bytes)} :
          \/ /\ d.ok
             /\ ProcessLine(d.text)
          \/ /\ ~d.ok
             /\ SkipRecord
    /\ total_bytes_read' = total_bytes_read + Len(line_of_bytes)
    /\ IF total_bytes_read' > bytes_at_last_message + ProgressEvery
       THEN /\ memory' = get_memory(steps')
            /\ bytes_at_last_message' = total_bytes_read'
            /\ flushed' = Len(out')
       ELSE UNCHANGED <<memory, bytes_at_last_message, flushed>>
    /\ buf' = SubSeq(buf, Len(line_of_bytes) + 1, Len(buf))
    /\ buffer' = <<>>
    /\ records' = Append(records, line_of_bytes)
    /\ line_of_bytes' = <<>>
    /\ pc' = "fill"
    /\ UNCHANGED <<args, tokens, err, input, stdin>>

\* after the loop: std_out.flush(), Ok(()) (main.rs 96-98)
\* (faulty variant: the final flush is left out)
Finish_NoFlush ==
    /\ pc = "finish"
    /\ pc' = "exit"
    /\ UNCHANGED <<buildVars, applyVars, input, stdin, buf, buffer, line_of_bytes,
                   out, flushed, total_bytes_read, bytes_at_last_message, records,
                   applied>>
Finish ==
    /\ pc = "finish"
    /\ flushed' = Len(out)
    /\ pc' = "exit"
    /\ UNCHANGED <<buildVars, applyVars, input, stdin, buf, buffer, line_of_bytes,
                   out, total_bytes_read, bytes_at_last_message, records, applied>>

InitRun ==
    /\ \E a \in RunArgs : InitBuildVars(a)
    /\ pc = "main"
    /\ InitApplyVars
    /\ \E inp \in Inputs : InitRunVars(inp)

NextRun == MainBuild \/ FillBuf \/ InnerRead \/ ProcessRecord \/ Finish

RunSpec == InitRun /\ [][NextRun]_vars

\* the program is one thread that runs whenever it can take a step: no
\* statement of inner_main waits for anything but the bytes of the stream,
\* and FillBuf delivers them or the end of the stream
RunSpecFair == RunSpec /\ WF_vars(NextRun)

InitFold ==
    /\ \E a \in SeqsUpTo(FoldTokens, MaxTokens) \cup FoldExampleArgs : InitBuildVars(a)
    /\ pc = "build"
    /\ InitApplyVars
    /\ InitRunVars(<<>>)

NextFold == BuildIter \/ BuildFinish \/ ApplyAnyLine

FoldSpec == InitFold /\ [][NextFold]_vars

\* tokens and lines for sequences of calls whose lines are logged
SeqTokens == {KwDedupe, KwLower, KwFilter, <<111>>}
SeqExampleArgs == {<<KwDedupe, KwLower, KwDedupe, KwFilter, <<111>>>>}
SeqLines ==
    {<<102, 79, 111>>,      \* "fOo"
     <<102, 111, 111>>,     \* "foo"
     <<120>>,               \* "x"
     <<88>>}                \* "X"

\* a call pipeline.apply(ln), the line appended to the log `applied`
ApplyLogged ==
    /\ pc = "built"
    /\ Len(applied) < MaxCalls
    /\ \E ln \in SeqLines :
          \E r \in {apply(steps, ln)} :
              /\ line' = ln
              /\ steps' = r.steps
              /\ ret' = r.ret
              /\ trace' = r.trace
              /\ applied' = Append(applied, ln)
    /\ op' = "apply"
    /\ UNCHANGED <<args, tokens, err, pc, hist, memory, input, stdin, buf, buffer,
                   line_of_bytes, out, flushed, total_bytes_read,
                   bytes_at_last_message, records>>

InitSeq ==
    /\ \E a \in SeqsUpTo(SeqTokens, MaxTokens) \cup SeqExampleArgs : InitBuildVars(a)
    /\ pc = "build"
    /\ InitApplyVars
    /\ InitRunVars(<<>>)

NextSeq == BuildIter \/ BuildFinish \/ ApplyLogged

SeqSpec == InitSeq /\ [][NextSeq]_vars

Next == BuildIter \/ BuildFinish \/ ApplyCall \/ GetMemoryCall

Spec == Init /\ [][Next]_vars

-----------------------------------------------------------------------------
(* Claims about build_pipeline, checked under BuildSpec *)

Keywords == {KwFilter, KwLower, KwUpper, KwTrim, KwDedupe, KwAppend, KwPrepend}
ArgKeywords == {KwFilter, KwAppend, KwPrepend}

KindOf(kw) ==
    CASE kw = KwFilter  -> "Filter"
      [] kw = KwLower   -> "Lower"
      [] kw = KwUpper   -> "Upper"
      [] kw = KwTrim    -> "Trim"
      [] kw = KwDedupe  -> "Dedupe"
      [] kw = KwAppend  -> "Append"
      [] kw = KwPrepend -> "Prepend"
      [] OTHER          -> "?"

BuildDone == pc \in {"built", "failed"}

\* Token i of a is read as a command keyword: it is the first token, or it
\* follows a complete command (a keyword, with its argument if it takes one,
\* a pattern that compiles in the case of filter) that was itself so read.
RECURSIVE KeywordPosition(_, _)
KeywordPosition(a, i) ==
    \/ i = 1
    \/ \E j \in 1..(i - 1) :
          /\ KeywordPosition(a, j)
          /\ to_lowercase(a[j]) \in Keywords
          /\ i = j + 1 + (IF to_lowercase(a[j]) \in ArgKeywords THEN 1 ELSE 0)
          /\ to_lowercase(a[j]) = KwFilter => RegexValid(a[j + 1])

\* the number of tokens the first i steps of st stand for
RECURSIVE TokensOf(_, _)
TokensOf(st, i) ==
    IF i = 0 THEN 0
    ELSE TokensOf(st, i - 1)
         + (IF st[i].kind \in {"Filter", "Append", "Prepend"} THEN 2 ELSE 1)

\* C4: build_pipeline on an empty token list fails with "No commands
\* specified" and returns no Pipeline.
C4_EmptyTokenListRejected ==
    (BuildDone /\ args = <<>>) => (pc = "failed" /\ err = ErrNoCommands)

\* C5: when build_pipeline succeeds the steps tile the token list: step i
\* is the step of the keyword at its place, in token order; filter, append
\* and prepend take the one following token verbatim as their argument (also
\* when it spells a keyword), the others take none; no token is left over,
\* and every step starts with an empty seen-set and a zero counter.
C5_StepsFollowKeywordOrder ==
    pc = "built" =>
        /\ TokensOf(steps, Len(steps)) = Len(args)
        /\ \A i \in 1..Len(steps) :
              LET at == TokensOf(steps, i - 1) + 1
              IN  /\ at <= Len(args)
                  /\ steps[i].kind = KindOf(to_lowercase(args[at]))
                  /\ IF to_lowercase(args[at]) \in ArgKeywords
                     THEN at + 1 <= Len(args) /\ steps[i].arg = args[at + 1]
                     ELSE steps[i].arg = <<>>
                  /\ steps[i].dupes = {}
                  /\ steps[i].stored = 0

\* C5 witness: a pipeline built from tokens where the argument of append
\* spells a keyword and a further command follows
C5_Witness ==
    /\ pc = "built"
    /\ Len(args) = 3
    /\ Len(steps) = 2
    /\ steps[1].kind = "Append"
    /\ steps[1].arg = KwTrim
    /\ steps[2].kind = "Dedupe"

\* C9: when the last token is read as a keyword and is filter, append or
\* prepend, build_pipeline fails with the message of the missing argument
\* (the code's literals: "Missing regular expression", "Missing suffix",
\* "Missing prefix") and returns no Pipeline, whatever valid commands came
\* before.
C9_MissingArgumentRejected ==
    (BuildDone /\ args # <<>> /\ KeywordPosition(args, Len(args))) =>
        LET kw == to_lowercase(Last(args))
        IN  /\ kw = KwFilter  => (pc = "failed" /\ steps = <<>> /\ err = ErrMissingRegex)
            /\ kw = KwAppend  => (pc = "failed" /\ steps = <<>> /\ err = ErrMissingSuffix)
            /\ kw = KwPrepend => (pc = "failed" /\ steps = <<>> /\ err = ErrMissingPrefix)

\* C9 witness: prepend as the last token, after a valid command
C9_Witness ==
    /\ BuildDone
    /\ Len(args) = 3
    /\ to_lowercase(args[1]) = KwAppend
    /\ Last(args) = KwPrepend
    /\ err = ErrMissingPrefix

\* C10: when a token read as a keyword is none of the seven keywords,
\* build_pipeline fails with "Invalid command specified", stopped at that
\* token (nothing after it is consumed), whatever follows it.
C10_UnknownKeywordRejected ==
    BuildDone =>
        \A i \in 1..Len(args) :
            (KeywordPosition(args, i) /\ to_lowercase(args[i]) \notin Keywords) =>
                /\ pc = "failed"
                /\ steps = <<>>
                /\ err = ErrInvalidCommand
                /\ Len(args) - Len(tokens) = i - 1

\* C10 witness: an unknown word after a valid command and before a token
\* that would be an error of its own
C10_Witness ==
    /\ BuildDone
    /\ Len(args) = 3
    /\ to_lowercase(args[1]) = KwLower
    /\ args[2] = <<122, 122>>
    /\ args[3] = KwFilter
    /\ err = ErrInvalidCommand

-----------------------------------------------------------------------------
(* Claims about apply and get_memory, checked under Spec *)

IsDedupe(step) == step.kind = "Dedupe"

\* the values that reached step i in the calls before the last one
Reached(i) == IF i <= Len(hist) THEN hist[i] ELSE {}

\* the step at which the last call returned None (0 when it returned Some)
DroppedAt == IF ret.some THEN 0 ELSE Len(trace)

RECURSIVE BytesIn(_)
BytesIn(S) ==
    IF S = {} THEN 0
    ELSE LET v == CHOOSE x \in S : TRUE IN StrLen(v) + BytesIn(S \ {v})

fOo == <<102, 79, 111>>
foo == <<102, 111, 111>>

\* C1: in every apply call, the line is dropped at a Dedupe step exactly
\* when the value reaching the step reached the same step in an earlier
\* call; otherwise the value passes the step unchanged.  With [lower,
\* dedupe] the first apply("fOo") returns Some("foo"), a later one None.
C1_DedupeDropsExactlyRepeats ==
    (pc = "built" /\ op # "none") =>
        /\ \A i \in 1..Len(trace) :
              IsDedupe(steps[i]) =>
                  /\ (DroppedAt = i) <=> (trace[i] \in Reached(i))
                  /\ (DroppedAt # i /\ i < Len(trace)) => trace[i + 1] = trace[i]
                  /\ (DroppedAt # i /\ i = Len(steps)) => ret = Some(trace[i])
        /\ (args = <<KwLower, KwDedupe>> /\ line = fOo) =>
              /\ Reached(1) = {} => ret = Some(foo)
              /\ fOo \in Reached(1) => ret = None

\* C1 witness: [lower, dedupe] has dropped a second "fOo"
C1_Witness ==
    /\ pc = "built"
    /\ op = "apply"
    /\ args = <<KwLower, KwDedupe>>
    /\ line = fOo
    /\ Reached(1) = {fOo}
    /\ Reached(2) = {foo}
    /\ trace = <<fOo, foo>>
    /\ ret = None

\* C6: an apply call that returns None stopped at the step that dropped
\* the line: every Dedupe step before it has recorded the value that
\* reached it in this call, on top of what it held, and that step and every
\* step after it are as they were before the call.
C6_DropHaltsWithoutRollback ==
    [][(pc = "built" /\ op' = "apply" /\ ~ret'.some) =>
          LET k == Len(trace')
          IN  /\ k \in 1..Len(steps)
              /\ steps[k].kind \in {"Filter", "Dedupe"}
              /\ Len(steps') = Len(steps)
              /\ \A j \in 1..(k - 1) :
                    IsDedupe(steps[j]) =>
                        /\ trace'[j] \notin steps[j].dupes
                        /\ steps'[j].dupes = steps[j].dupes \cup {trace'[j]}
                        /\ steps'[j].stored = steps[j].stored + StrLen(trace'[j])
              /\ \A j \in k..Len(steps) : steps'[j] = steps[j]
      ]_vars

\* C6 witness: [dedupe, filter o, dedupe] dropped a line at the filter; the
\* first Dedupe holds it, the last one holds nothing
C6_Witness ==
    /\ pc = "built"
    /\ op = "apply"
    /\ Len(steps) = 3
    /\ IsDedupe(steps[1])
    /\ steps[2].kind = "Filter"
    /\ IsDedupe(steps[3])
    /\ ~ret.some
    /\ Len(trace) = 2
    /\ trace[1] \in steps[1].dupes
    /\ trace[1] \notin Reached(1)
    /\ steps[3].dupes = {}

\* C7: each Dedupe step's counter is the sum of the byte lengths of the
\* values in its seen-set (zero and empty after construction), and
\* get_memory returns the sum of the counters, 0 without a Dedupe step.
C7_MemoryIsBytesStored ==
    pc = "built" =>
        LET held == [i \in 1..Len(steps) |->
                        IF IsDedupe(steps[i]) THEN BytesIn(steps[i].dupes) ELSE 0]
        IN  /\ \A i \in 1..Len(steps) :
                  IsDedupe(steps[i]) => steps[i].stored = held[i]
            /\ op = "none" =>
                  \A i \in 1..Len(steps) : steps[i].dupes = {} /\ steps[i].stored = 0
            /\ op = "get_memory" => memory = SumSeq(held)
            /\ (op = "get_memory" /\ \A i \in 1..Len(steps) : ~IsDedupe(steps[i]))
                  => memory = 0

\* C7 witness: get_memory returned 8 for [dedupe, filter o, dedupe], whose
\* first Dedupe holds a two-byte character and "fOo", and whose last holds
\* "fOo"
C7_Witness ==
    /\ pc = "built"
    /\ op = "get_memory"
    /\ memory = 8
    /\ Len(steps) = 3
    /\ IsDedupe(steps[1])
    /\ IsDedupe(steps[3])
    /\ steps[1].dupes = {fOo, <<233>>}
    /\ steps[3].dupes = {fOo}

-----------------------------------------------------------------------------
(* Claims about the run loop, checked under RunSpec *)

\* a record without the newline that ends it
Stripped(r) ==
    IF r # <<>> /\ Last(r) = 10 THEN SubSeq(r, 1, Len(r) - 1) ELSE r

\* what a run writes when the records recs are decoded, handed to apply on
\* the pipeline st one after the other, and each surviving line is written
\* with a newline after it; a record that is not UTF-8 is passed over
RECURSIVE Written(_, _)
Written(st, recs) ==
    IF recs = <<>> THEN <<>>
    ELSE LET d == from_utf8(Head(recs))
             r == apply(st, d.text)
         IN  IF ~d.ok THEN Written(st, Tail(recs))
             ELSE (IF r.ret.some THEN as_bytes(r.ret.value) \o Newline ELSE <<>>)
                  \o Written(r.steps, Tail(recs))

\* the maximal newline-delimited segments of the byte stream bs, each with
\* its newline; a last segment without one is a segment too
RECURSIVE Segments(_)
Segments(bs) ==
    IF bs = <<>> THEN <<>>
    ELSE LET r == read_until(bs) IN <<r.taken>> \o Segments(r.rest)

RanToEnd == pc = "exit" /\ err = NoErr

\* C2: no text handed to apply holds a newline, and a finished run has
\* written, in input order, s followed by one newline for each record r of
\* the input (its newline removed) with apply(r) = Some(s); "Foo\nfoo\nbar\n"
\* through [lower, dedupe] gives exactly "foo\nbar\n".
C2_StrippedRecordsAndOutput ==
    /\ \A i \in 1..Len(applied) : \A j \in 1..Len(applied[i]) : applied[i][j] # 10
    /\ RanToEnd =>
          out = Written(build_pipeline(args).steps,
                        [i \in 1..Len(Segments(input)) |-> Stripped(Segments(input)[i])])
    /\ (RanToEnd /\ args = <<KwLower, KwDedupe>> /\ input = ExampleInput) =>
          out = <<102, 111, 111, 10, 98, 97, 114, 10>>

\* C3: whatever the reads deliver, the records of the loop are the maximal
\* newline-delimited segments of the input: each ends with the only newline
\* it holds, or holds none and ends the input.
C3_RecordsAreWholeLines ==
    \A i \in 1..Len(records) :
        LET r == records[i]
            upTo == Len(Concat(SubSeq(records, 1, i)))
        IN  /\ r # <<>>
            /\ \A j \in 1..(Len(r) - 1) : r[j] # 10
            /\ Last(r) = 10 \/ upTo = Len(input)

\* C8: an iteration whose record is not UTF-8 calls no apply, leaves the
\* pipeline and the output as they are, and goes back to the top of the
\* loop with exactly that record consumed; and a finished run has written
\* what the records that are UTF-8 give, as if the others were not there.
C8_InvalidRecordSkipped ==
    /\ [][(pc = "decode" /\ ~from_utf8(line_of_bytes).ok) =>
             /\ UNCHANGED <<steps, applied, line, ret, trace, hist, op, out, err>>
             /\ pc' = "fill"
             /\ records' = Append(records, line_of_bytes)
             /\ buf' = SubSeq(buf, Len(line_of_bytes) + 1, Len(buf))
             /\ stdin' = stdin
             /\ line_of_bytes' = <<>>
         ]_vars
    /\ [](RanToEnd =>
             /\ Concat(records) = input
             /\ out = Written(build_pipeline(args).steps, records))

\* C8 witness: a finished run skipped a record that is not UTF-8, then
\* handed the next record to apply and wrote its line
C8_Witness ==
    /\ RanToEnd
    /\ Len(records) = 2
    /\ ~from_utf8(records[1]).ok
    /\ from_utf8(records[2]).ok
    /\ Len(applied) = 1
    /\ applied[1] = from_utf8(records[2]).text
    /\ out # <<>>


-----------------------------------------------------------------------------
(* Further claims about build_pipeline, checked under BuildSpec *)

\* C11: when the token after a filter read as a keyword does not compile
\* as a pattern, build_pipeline fails with "Invalid regular expression",
\* which is neither the message of an unknown command nor that of a missing
\* pattern, and returns no Pipeline.
C11_InvalidPatternRejected ==
    BuildDone =>
        \A i \in 1..(Len(args) - 1) :
            (/\ KeywordPosition(args, i)
             /\ to_lowercase(args[i]) = KwFilter
             /\ ~RegexValid(args[i + 1])) =>
                /\ pc = "failed"
                /\ steps = <<>>
                /\ err = ErrInvalidRegex
                /\ err \notin {ErrInvalidCommand, ErrMissingRegex, NoErr}

\* C11 witness: FILTER followed by a lone backslash, after a valid command
C11_Witness ==
    /\ BuildDone
    /\ Len(args) = 3
    /\ args[1] = KwLower
    /\ to_lowercase(args[2]) = KwFilter
    /\ args[3] = Backslash
    /\ pc = "failed"
    /\ err = ErrInvalidRegex


\* token t spells keyword k in some mix of upper and lower case
IsSpelling(t, k) ==
    /\ Len(t) = Len(k)
    /\ \A i \in 1..Len(k) : t[i] \in {k[i], k[i] - 32}

\* C12: every step of a built pipeline has the kind of the keyword its
\* token spells, in whatever case, and a Filter, Append or Prepend step holds
\* the following token exactly as given; and no token that spells a keyword
\* is ever refused as an unknown command.
C12_KeywordsAnyCaseArgumentsVerbatim ==
    BuildDone =>
        /\ pc = "built" =>
              \A i \in 1..Len(steps) :
                  LET at == TokensOf(steps, i - 1) + 1
                  IN  \E k \in Keywords :
                         /\ IsSpelling(args[at], k)
                         /\ steps[i].kind = KindOf(k)
                         /\ k \in ArgKeywords => steps[i].arg = args[at + 1]
        /\ (pc = "failed" /\ err = ErrInvalidCommand) =>
              \A k \in Keywords : ~IsSpelling(args[Len(args) - Len(tokens) + 1], k)

\* C12 witness: "Append" takes "FILTER" as its suffix, kept in upper case,
\* and "DEDUPE" builds a Dedupe step
C12_Witness ==
    /\ pc = "built"
    /\ args = <<<<65, 112, 112, 101, 110, 100>>,
                <<70, 73, 76, 84, 69, 82>>,
                <<68, 69, 68, 85, 80, 69>>>>
    /\ Len(steps) = 2
    /\ steps[1].kind = "Append"
    /\ steps[1].arg = <<70, 73, 76, 84, 69, 82>>
    /\ steps[2].kind = "Dedupe"


-----------------------------------------------------------------------------
(* Claims about pipelines without Dedupe steps, checked under FoldSpec *)

NoDedupe == \A i \in 1..Len(steps) : ~IsDedupe(steps[i])

\* what a step other than Filter and Dedupe makes of the value v
Transformed(step, v) ==
    CASE step.kind = "Append"  -> v \o step.arg
      [] step.kind = "Prepend" -> step.arg \o v
      [] step.kind = "Trim"    -> trim(v)
      [] step.kind = "Lower"   -> to_lowercase(v)
      [] step.kind = "Upper"   -> to_uppercase(v)
      [] OTHER                 -> v

\* C13: without a Dedupe step an apply call is the fold of the steps over
\* the line, left to right: the first step receives the line, each step
\* hands on what it makes of its value (a Filter hands it on unchanged),
\* the call returns None exactly when a Filter does not match the value that
\* reached it, and Some of the last value otherwise; the steps are left as
\* they were.  [prepend A, append B] on "x" returns Some("AxB").
C13_ApplyIsFoldOfSteps ==
    (pc = "built" /\ op = "apply" /\ NoDedupe) =>
        /\ Len(trace) <= Len(steps)
        /\ Len(steps) > 0 => (Len(trace) > 0 /\ trace[1] = line)
        /\ \A i \in 1..(Len(trace) - 1) :
              /\ trace[i + 1] = Transformed(steps[i], trace[i])
              /\ steps[i].kind = "Filter" => is_match(steps[i].arg, trace[i])
        /\ ~ret.some <=>
              /\ Len(trace) > 0
              /\ steps[Len(trace)].kind = "Filter"
              /\ ~is_match(steps[Len(trace)].arg, trace[Len(trace)])
        /\ ret.some =>
              /\ Len(trace) = Len(steps)
              /\ ret.value = IF Len(steps) = 0 THEN line
                             ELSE Transformed(steps[Len(steps)], trace[Len(steps)])
        /\ (\A i \in 1..Len(steps) : steps[i].kind # "Filter") => ret.some
        /\ steps = build_pipeline(args).steps
        /\ (args = <<KwPrepend, <<65>>, KwAppend, <<66>>>> /\ line = <<120>>) =>
              ret = Some(<<65, 120, 66>>)

\* C13 witness: [trim, filter o] dropped " O": the filter saw the trimmed
\* value, which holds no "o"
C13_Witness ==
    /\ pc = "built"
    /\ op = "apply"
    /\ args = <<KwTrim, KwFilter, <<111>>>>
    /\ line = <<32, 79>>
    /\ trace = <<<<32, 79>>, <<79>>>>
    /\ ret = None


\* C15: lower is idempotent: the pipeline [lower] applied to its own
\* result returns that result again, and [lower, lower] returns for every
\* line what [lower] returns.
C15_LowerIdempotent ==
    (pc = "built" /\ op = "apply") =>
        /\ args = <<KwLower>> =>
              /\ ret.some
              /\ apply(steps, ret.value).ret = ret
              /\ ret.value = to_lowercase(line)
        /\ args = <<KwLower, KwLower>> =>
              ret = apply(build_pipeline(<<KwLower>>).steps, line).ret

\* C15 witness: [lower, lower] returned "foo" for "fOo"
C15_Witness ==
    /\ pc = "built"
    /\ op = "apply"
    /\ args = <<KwLower, KwLower>>
    /\ line = fOo
    /\ trace = <<fOo, foo>>
    /\ ret = Some(foo)


-----------------------------------------------------------------------------
(* Claims about the program run, checked under RunSpec *)

\* C14: when build_pipeline returns an error the program ends at once: no
\* byte of the input stream is read, apply is never called, no record is
\* taken and nothing is written to the output.
C14_BuildErrorProcessesNothing ==
    (pc # "main" /\ ~build_pipeline(args).ok) =>
        /\ pc = "exit"
        /\ err = build_pipeline(args).err
        /\ err # NoErr
        /\ stdin = input
        /\ buf = <<>>
        /\ records = <<>>
        /\ applied = <<>>
        /\ op = "none"
        /\ out = <<>>
        /\ flushed = 0
        /\ total_bytes_read = 0

\* C14 witness: the program ended on a missing filter pattern with the whole
\* of a non-empty input unread
C14_Witness ==
    /\ pc = "exit"
    /\ args = <<KwLower, KwFilter>>
    /\ err = ErrMissingRegex
    /\ input = ExampleInput
    /\ stdin = ExampleInput
    /\ out = <<>>


-----------------------------------------------------------------------------
(* Claims about the built pipeline over a sequence of calls, checked under
   Spec *)

\* what a step was built as: its variant and its pattern, suffix or prefix
Shape(step) == <<step.kind, step.arg>>

\* C16: once built, the step list keeps its length and order and every step
\* its variant and its pattern, suffix or prefix, as build_pipeline made
\* them; a call changes nothing of the pipeline but the seen-set and the
\* counter of Dedupe steps, apply alone does so, and get_memory leaves the
\* whole pipeline as it is.
C16_StepListFixedAfterBuild ==
    /\ [](pc = "built" =>
            /\ Len(steps) = Len(build_pipeline(args).steps)
            /\ \A i \in 1..Len(steps) :
                  Shape(steps[i]) = Shape(build_pipeline(args).steps[i]))
    /\ [][pc = "built" =>
            /\ Len(steps') = Len(steps)
            /\ \A i \in 1..Len(steps) :
                  /\ Shape(steps'[i]) = Shape(steps[i])
                  /\ ~IsDedupe(steps[i]) => steps'[i] = steps[i]
            /\ op' = "get_memory" =>
                  /\ steps' = steps
                  /\ memory' = get_memory(steps)
                  /\ UNCHANGED <<args, tokens, err, pc, line, ret, trace, hist>>
         ]_vars

\* C16 witness: [append o, dedupe] after an apply call that recorded "o" and
\* a get_memory call that followed it
C16_Witness ==
    /\ pc = "built"
    /\ op = "get_memory"
    /\ args = <<KwAppend, <<111>>, KwDedupe>>
    /\ Shape(steps[1]) = <<"Append", <<111>>>>
    /\ steps[2].dupes = {<<111>>}
    /\ memory = 1

\* C17: an apply call never takes a value out of a Dedupe step's seen-set
\* and never lowers its counter, so get_memory never decreases from one
\* call to the next; a call dropped at a Dedupe step leaves that step's set
\* and counter as they were.
C17_SeenSetsOnlyGrow ==
    [][pc = "built" =>
          /\ Len(steps') = Len(steps)
          /\ \A i \in 1..Len(steps) :
                IsDedupe(steps[i]) =>
                    /\ steps[i].dupes \subseteq steps'[i].dupes
                    /\ steps'[i].stored >= steps[i].stored
          /\ get_memory(steps') >= get_memory(steps)
          /\ memory' >= memory
          /\ (op' = "apply" /\ ~ret'.some /\ IsDedupe(steps[Len(trace')])) =>
                /\ trace'[Len(trace')] \in steps[Len(trace')].dupes
                /\ steps'[Len(trace')] = steps[Len(trace')]
      ]_vars

\* C17 witness: [lower, dedupe] holding "foo" and an accented e dropped a
\* further "fOo"
C17_Witness ==
    /\ pc = "built"
    /\ op = "apply"
    /\ args = <<KwLower, KwDedupe>>
    /\ line = fOo
    /\ ret = None
    /\ steps[2].dupes = {foo, <<233>>}
    /\ steps[2].stored = 5


\* the bytes of the stream the program has not consumed yet
Unread == buf \o stdin

\* C18: every run of the program on a finite stream ends; each iteration
\* of the outer loop that takes a record consumes at least one byte; the
\* loop is left exactly when no byte of the stream remains, and the output
\* is flushed before the program ends.
C18_RunTerminates ==
    /\ <>(pc = "exit")
    /\ [][pc = "decode" =>
            /\ Len(line_of_bytes) >= 1
            /\ Len(Unread') = Len(Unread) - Len(line_of_bytes)
            /\ total_bytes_read' = total_bytes_read + Len(line_of_bytes)
            /\ pc' = "fill"
         ]_vars
    /\ [][pc = "fill" => (pc' = "finish" <=> Unread = <<>>)]_vars
    /\ [](pc = "finish" => (Unread = <<>> /\ total_bytes_read = Len(input)))
    /\ []((pc = "exit" /\ err = NoErr) =>
            /\ Unread = <<>>
            /\ total_bytes_read = Len(input)
            /\ flushed = Len(out))

\* C18 witness: the run of [lower, dedupe] on "Foo\nfoo\nbar\n" ended with
\* all the stream consumed and the output flushed
C18_Witness ==
    /\ pc = "exit"
    /\ args = <<KwLower, KwDedupe>>
    /\ input = ExampleInput
    /\ Unread = <<>>
    /\ Len(records) >= 3
    /\ out # <<>>
    /\ flushed = Len(out)


\* C20: the run loop neither loses nor repeats a byte: at every moment the
\* records taken so far followed by the bytes not yet consumed are the
\* input, the record of an iteration is the front of the buffered bytes,
\* the iteration consumes exactly the bytes of its record, and when the
\* loop is left the records in order are the whole input.
C20_RecordsPartitionInput ==
    /\ [](Concat(records) \o Unread = input)
    /\ [](total_bytes_read = Len(Concat(records)))
    /\ []((pc \in {"inner", "decode"}) =>
            /\ Len(line_of_bytes) <= Len(buf)
            /\ line_of_bytes = SubSeq(buf, 1, Len(line_of_bytes)))
    /\ [][pc = "decode" =>
            /\ records' = Append(records, line_of_bytes)
            /\ buf' = SubSeq(buf, Len(line_of_bytes) + 1, Len(buf))
            /\ stdin' = stdin
         ]_vars
    /\ []((pc \in {"finish", "exit"} /\ err = NoErr) => Concat(records) = input)

\* C20 witness: of "Foo\nfoo\nbar\n" the records "Foo\n" and "fo" are
\* taken, the second one cut by a read, and the rest is still to come
C20_Witness ==
    /\ pc = "fill"
    /\ input = ExampleInput
    /\ records = <<<<70, 111, 111, 10>>, <<102, 111>>>>
    /\ buf = <<>>
    /\ stdin = <<111, 10, 98, 97, 114, 10>>


-----------------------------------------------------------------------------
(* The pipeline against a reference that records on survival, checked under
   SeqSpec *)

\* The reference pipeline's pass of a value through the steps from step i on:
\* nothing is recorded; tr is the value each step received
RECURSIVE RefLoop(_, _, _, _)
RefLoop(st, i, output, tr) ==
    IF i > Len(st) THEN [ret |-> Some(output), trace |-> tr]
    ELSE IF st[i].kind = "Dedupe" /\ output \in st[i].dupes
         THEN [ret |-> None, trace |-> tr]
    ELSE IF st[i].kind = "Filter" /\ ~is_match(st[i].arg, output)
         THEN [ret |-> None, trace |-> tr]
    ELSE RefLoop(st, i + 1, Transformed(st[i], output), Append(tr, output))

\* The reference pipeline's apply: each Dedupe step records the value it
\* received only when the line survived every step
RefApply(st, ln) ==
    LET r == RefLoop(st, 1, ln, <<>>)
    IN  [ret   |-> r.ret,
         steps |-> IF r.ret.some
                   THEN [i \in 1..Len(st) |->
                            IF st[i].kind = "Dedupe"
                            THEN [st[i] EXCEPT !.dupes = @ \cup {r.trace[i]}]
                            ELSE st[i]]
                   ELSE st]

\* the reference pipeline's steps after the lines lns, starting from st
RECURSIVE RefRun(_, _)
RefRun(st, lns) ==
    IF lns = <<>> THEN st
    ELSE RefRun(RefApply(st, Head(lns)).steps, Tail(lns))

\* the result of the reference pipeline for the last of the lines lns
RefResult(st, lns) ==
    RefApply(RefRun(st, SubSeq(lns, 1, Len(lns) - 1)), lns[Len(lns)]).ret

\* C19: that a dropped line's values stay recorded does not show in the
\* results: for every pipeline and every sequence of lines, each apply
\* call returns what the reference pipeline, which records at its Dedupe
\* steps only the lines that survive every step, returns for the same line
\* after the same earlier lines.
C19_NoRollbackNotObservable ==
    (pc = "built" /\ op = "apply") =>
        /\ Len(applied) >= 1
        /\ line = applied[Len(applied)]
        /\ ret = RefResult(build_pipeline(args).steps, applied)

\* C19 witness: [dedupe, lower, dedupe] after "fOo", "foo", "foo": the second
\* call was dropped at the last step and left "foo" in the first step's set,
\* the third call is dropped at the first step
C19_Witness ==
    /\ pc = "built"
    /\ op = "apply"
    /\ args = <<KwDedupe, KwLower, KwDedupe>>
    /\ applied = <<fOo, foo, foo>>
    /\ trace = <<foo>>
    /\ ret = None
    /\ steps[1].dupes = {fOo, foo}
    /\ RefRun(build_pipeline(args).steps, applied)[1].dupes = {fOo}

====
